---- MODULE Spec2Model ----
(***************************************************************************)
(* Model of the two screens of the insurance multi-agent front end:        *)
(*   - Upload (src/frontend/src/pages/Upload.js lines 7-97)                *)
(*   - Chat   (src/frontend/src/pages/Upload.js lines 133-394)             *)
(* Each event handler and each resumption of an async handler after an     *)
(* await is one action.  The backend and the transport are the             *)
(* environment: the backend picks the lines of a response, the transport   *)
(* picks where the byte stream is cut into chunks and whether it fails.    *)
(***************************************************************************)
EXTENDS Integers, Sequences, FiniteSets, TLC

(***************************************************************************)
(* Bounds of the model.                                                    *)
(***************************************************************************)
\* lines the backend sends over the whole session
MaxLines == 2
\* chat submissions that open a request
MaxSubmits == 2
\* files in one selection
MaxFiles == 2

VARIABLES
    \* ---- Chat component state (useState hooks, lines 134-138)
    query,          \* text of the input box
    messages,       \* the conversation
    loading,        \* a submission is streaming
    activeAgent,    \* agent shown in the header indicator
    agentHistory,   \* agents of the execution-flow timeline
    \* ---- handleSubmit's position and its environment
    pc,             \* "idle" | "streaming" | "completed" | "errored"
    streams,        \* chat requests opened and not yet ended
    response,       \* lines the backend sends on the open request
    wire,           \* tokens of the open response not yet read
    linesSent,      \* lines sent by the backend so far (all requests)
    submits,        \* requests opened so far
    \* ---- Upload component state (useState hooks, lines 8-10)
    files,          \* selected files
    uploading,      \* an upload is pending
    result,         \* result banner
    \* ---- handleUpload's environment
    formData,       \* files of the pending /embed request
    uploads         \* /embed requests started and not yet ended

chatVars == <<query, messages, loading, activeAgent, agentHistory,
              pc, streams, response, wire, linesSent, submits>>
uploadVars == <<files, uploading, result, formData, uploads>>
vars == <<query, messages, loading, activeAgent, agentHistory,
          pc, streams, response, wire, linesSent, submits,
          files, uploading, result, formData, uploads>>

(***************************************************************************)
(* Values.                                                                 *)
(***************************************************************************)
\* JavaScript null
Null == "<null>"
\* JavaScript undefined: a field the JSON object does not carry
Undefined == "<undefined>"

\* what the user can have typed: nothing, white space only, a question
Queries == {"", " ", "Does it comply?"}

\* String.prototype.trim on the values of Queries
Trim(s) == IF s = " " THEN "" ELSE s

Range(s) == {s[i] : i \in 1..Len(s)}

Last(s) == s[Len(s)]

\* an AgentEvent as JSON.parse returns it
Event(t, a, c) == [type |-> t, agent |-> a, content |-> c]

\* events the backend may send
EventPool ==
    { Event("agent_start", "RAGAgent", Undefined),
      Event("agent_active", "RootAgent", Undefined),
      Event("agent_text", "RAGAgent", "Yes"),
      Event("agent_text", Undefined, ", it complies.") }

(***************************************************************************)
(* The wire format.  Text is a sequence of tokens and a chunk boundary     *)
(* falls between two tokens: "data:" and the blank after it are the two    *)
(* tokens of the prefix "data: " (a boundary can fall inside the prefix),  *)
(* a JSON object is its two braces and one token per field, a newline is   *)
(* one token.                                                              *)
(***************************************************************************)
NL == "\n"

DataPrefix == <<"data:", " ">>

\* JSON.stringify of an event, as the backend writes it
ToJSON(e) == <<"{", e.type, e.agent, e.content, "}">>

\* a payload that is not JSON: an object cut short
BadPayload == <<"{", "agent_text">>

\* the lines the backend may send: "data: <json>" and a malformed one
LinePool == {DataPrefix \o ToJSON(e) : e \in EventPool}
              \cup {DataPrefix \o BadPayload}

RECURSIVE SeqsUpTo(_, _)
SeqsUpTo(S, n) ==
    IF n = 0 THEN {<<>>}
    ELSE LET shorter == SeqsUpTo(S, n - 1)
         IN  shorter \cup {Append(s, x) : s \in {t \in shorter : Len(t) = n - 1}, x \in S}

\* the text of a response: every line followed by a newline
RECURSIVE Text(_)
Text(lines) ==
    IF lines = <<>> THEN <<>>
    ELSE Head(lines) \o <<NL>> \o Text(Tail(lines))

\* the responses the backend may still send when n lines are left
Responses(n) == SeqsUpTo(LinePool, n)

(***************************************************************************)
(* The reader loop's helpers (lines 187-193).                              *)
(***************************************************************************)
\* chunk.split('\n'): the part before the first newline, then the parts of
\* the rest
RECURSIVE Split(_)
Split(t) ==
    LET breaks == {i \in 1..Len(t) : t[i] = NL}
    IN  IF breaks = {} THEN <<t>>
        ELSE LET i == CHOOSE j \in breaks : \A k \in breaks : j <= k
             IN  <<SubSeq(t, 1, i - 1)>> \o Split(SubSeq(t, i + 1, Len(t)))

\* line.startsWith('data: ')
StartsWith(line, p) == Len(line) >= Len(p) /\ SubSeq(line, 1, Len(p)) = p

\* line.slice(6): the line without the tokens of the prefix
Slice(line, n) == SubSeq(line, n + 1, Len(line))

\* JSON.parse throws unless the payload is a whole object
ParseThrows(p) == ~(Len(p) = 5 /\ p[1] = "{" /\ p[5] = "}")

\* JSON.parse of a whole object
JSONParse(p) == Event(p[2], p[3], p[4])

(***************************************************************************)
(* Messages.                                                               *)
(***************************************************************************)
\* userMessage (lines 153-156); it has no events and no agentsUsed
UserMessage(q) ==
    [role |-> "user", content |-> q, events |-> <<>>, agentsUsed |-> {}]

\* agentMessage (lines 164-169)
AgentMessage ==
    [role |-> "assistant", content |-> "", events |-> <<>>,
     agentsUsed |-> {"RootAgent"}]

\* the Chat state the reader loop updates
ChatState(m, a, h) == [messages |-> m, activeAgent |-> a, agentHistory |-> h]

\* HistoryAdd without the includes test
HistoryAdd_AlwaysAppend(prev, agent) == Append(prev, agent)

\* setAgentHistory's updater (lines 197-202)
HistoryAdd(prev, agent) ==
    IF agent \in Range(prev) THEN prev ELSE Append(prev, agent)

\* setMessages' updater for agent_text (lines 206-212)
TextUpdate(prev, data) ==
    [prev EXCEPT ![Len(prev)].content = @ \o data.content,
                 ![Len(prev)].agentsUsed = @ \cup {data.agent}]

\* EventUpdate without the agentsUsed.add of lines 219-221
EventUpdate_NoAgentAdd(prev, data) ==
    [prev EXCEPT ![Len(prev)].events = Append(@, data)]

\* setMessages' updater for every event (lines 215-223)
EventUpdate(prev, data) ==
    [prev EXCEPT ![Len(prev)].events = Append(@, data),
                 ![Len(prev)].agentsUsed =
                     IF data.agent # Undefined THEN @ \cup {data.agent} ELSE @]

\* the body of the inner try for one parsed event (lines 195-223)
ApplyEvent(st, data) ==
    LET s1 == IF data.type \in {"agent_start", "agent_active"}
              THEN [st EXCEPT !.activeAgent = data.agent,
                              !.agentHistory = HistoryAdd(@, data.agent)]
              ELSE st
        s2 == IF data.type = "agent_text"
              THEN [s1 EXCEPT !.messages = TextUpdate(@, data)]
              ELSE s1
    IN  [s2 EXCEPT !.messages = EventUpdate(@, data)]

\* one iteration of the for loop (lines 190-229): a line without the prefix
\* is skipped, a payload that does not parse is logged and skipped
ProcessLine(st, line) ==
    IF ~StartsWith(line, DataPrefix) THEN st
    ELSE IF ParseThrows(Slice(line, Len(DataPrefix))) THEN st
    ELSE ApplyEvent(st, JSONParse(Slice(line, Len(DataPrefix))))

\* ProcessLines with the try around the whole loop: a payload that does not
\* parse ends the loop over the chunk's lines
RECURSIVE ProcessLines_StopAtBadLine(_, _)
ProcessLines_StopAtBadLine(st, lines) ==
    IF lines = <<>> THEN st
    ELSE IF /\ StartsWith(Head(lines), DataPrefix)
            /\ ParseThrows(Slice(Head(lines), Len(DataPrefix)))
         THEN st
         ELSE ProcessLines_StopAtBadLine(ProcessLine(st, Head(lines)), Tail(lines))

\* the for loop over the lines of one chunk (line 190)
RECURSIVE ProcessLines(_, _)
ProcessLines(st, lines) ==
    IF lines = <<>> THEN st
    ELSE ProcessLines(ProcessLine(st, Head(lines)), Tail(lines))

\* ErrorUpdate that replaces the message instead of its content
ErrorUpdate_DropsEvents(prev, message) ==
    [prev EXCEPT ![Len(prev)] =
        [role |-> "assistant", content |-> "Error: " \o message,
         events |-> <<>>, agentsUsed |-> {}]]

\* the catch block's updater (lines 234-238)
ErrorUpdate(prev, message) ==
    [prev EXCEPT ![Len(prev)].content = "Error: " \o message]

\* error.message of a failed fetch or read
ErrorMessages == {"Failed to fetch"}

(***************************************************************************)
(* Chat: the actions.                                                      *)
(***************************************************************************)
ChatInit ==
    /\ query = ""
    /\ messages = <<>>
    /\ loading = FALSE
    /\ activeAgent = Null
    /\ agentHistory = <<>>
    /\ pc = "idle"
    /\ streams = 0
    /\ response = <<>>
    /\ wire = <<>>
    /\ linesSent = 0
    /\ submits = 0

\* the textarea's onChange (line 383); the textarea is disabled while
\* loading (line 385)
handleQueryChange(q) ==
    /\ ~loading
    /\ query' = q
    /\ UNCHANGED <<messages, loading, activeAgent, agentHistory,
                   pc, streams, response, wire, linesSent, submits>>

\* handleSubmit without its early return
SubmitReturnsEarly_Never == FALSE

\* the early return of handleSubmit (line 151)
SubmitReturnsEarly == Trim(query) = "" \/ loading

\* a handler that never resets loading
Finally_KeepsLoading == loading' = loading

\* the finally block (lines 239-241)
Finally == loading' = FALSE

\* handleSubmit up to its first await (lines 149-178); the backend's answer
\* to the request is chosen here
handleSubmit ==
    IF SubmitReturnsEarly
    THEN UNCHANGED vars
    ELSE /\ submits < MaxSubmits
         /\ messages' = messages \o <<UserMessage(query), AgentMessage>>
         /\ query' = ""
         /\ loading' = TRUE
         /\ activeAgent' = "RootAgent"
         /\ agentHistory' = <<"RootAgent">>
         /\ pc' = "streaming"
         /\ streams' = streams + 1
         /\ submits' = submits + 1
         /\ \E r \in Responses(MaxLines - linesSent) :
                /\ response' = r
                /\ wire' = Text(r)
                /\ linesSent' = linesSent + Len(r)
         /\ UNCHANGED uploadVars

\* reader.read() resolves with a chunk: the next n tokens (lines 184-230)
ReadChunk(n) ==
    /\ streams > 0
    /\ n \in 1..Len(wire)
    /\ LET chunk == SubSeq(wire, 1, n)
           st == ProcessLines(ChatState(messages, activeAgent, agentHistory),
                              Split(chunk))
       IN  /\ messages' = st.messages
           /\ activeAgent' = st.activeAgent
           /\ agentHistory' = st.agentHistory
    /\ wire' = SubSeq(wire, n + 1, Len(wire))
    /\ UNCHANGED <<query, loading, pc, streams, response, linesSent, submits>>
    /\ UNCHANGED uploadVars

\* reader.read() resolves with done (lines 185, 232, 239-241)
ReadDone ==
    /\ streams > 0
    /\ wire = <<>>
    /\ activeAgent' = Null
    /\ Finally
    /\ pc' = "completed"
    /\ streams' = streams - 1
    /\ response' = <<>>
    /\ wire' = <<>>
    /\ UNCHANGED <<query, messages, agentHistory, linesSent, submits>>
    /\ UNCHANGED uploadVars

\* fetch or reader.read() rejects (lines 233-241)
ReadError(message) ==
    /\ streams > 0
    /\ messages' = ErrorUpdate(messages, message)
    /\ Finally
    /\ pc' = "errored"
    /\ streams' = streams - 1
    /\ response' = <<>>
    /\ wire' = <<>>
    /\ UNCHANGED <<query, activeAgent, agentHistory, linesSent, submits>>
    /\ UNCHANGED uploadVars

ChatNext ==
    \/ \E q \in Queries : handleQueryChange(q) /\ UNCHANGED uploadVars
    \/ handleSubmit
    \/ \E n \in 1..Len(wire) : ReadChunk(n)
    \/ ReadDone
    \/ \E m \in ErrorMessages : ReadError(m)

(***************************************************************************)
(* Upload: values and actions.                                             *)
(***************************************************************************)
FileNames == {"a.pdf", "b.docx", "c.pdf"}

\* what the file picker can hand over: distinct files, possibly none
Selections ==
    {s \in SeqsUpTo(FileNames, MaxFiles) :
        \A i, j \in 1..Len(s) : i # j => s[i] # s[j]}

\* useState(null) of result (line 10), as a record
NoResult == [status |-> Null, message |-> "", files_processed |-> <<>>]

\* response.data of a 2xx answer of POST /embed for the files sent: the
\* backend reports the batch processed, or reports that it failed
EmbedAnswers(sent) ==
    { [status |-> "success", message |-> "Documents embedded",
       files_processed |-> sent],
      [status |-> "error", message |-> "Embedding failed",
       files_processed |-> <<>>] }

\* the result the catch block sets (line 34)
CaughtResult(message) ==
    [status |-> "error", message |-> message, files_processed |-> <<>>]

\* error.message of a rejected axios.post
UploadErrors == {"Network Error"}

UploadInit ==
    /\ files = <<>>
    /\ uploading = FALSE
    /\ result = NoResult
    /\ formData = <<>>
    /\ uploads = 0

\* handleFileChange (lines 12-14); the input is never disabled
handleFileChange(selection) ==
    /\ files' = selection
    /\ UNCHANGED <<uploading, result, formData, uploads>>

\* a button that stays enabled while an upload is pending
UploadDisabled_IgnoresPending == Len(files) = 0

\* the upload button's disabled attribute (line 75)
UploadDisabled == uploading \/ Len(files) = 0

\* handleUpload up to its await (lines 16-30)
handleUpload ==
    IF Len(files) = 0
    THEN UNCHANGED uploadVars
    ELSE /\ uploading' = TRUE
         /\ result' = NoResult
         /\ formData' = files
         /\ uploads' = uploads + 1
         /\ UNCHANGED files

\* a click on the upload button (lines 73-79): a disabled button ignores it
ClickUpload ==
    IF UploadDisabled THEN UNCHANGED uploadVars ELSE handleUpload

\* axios.post resolves (lines 31-32, 35-37)
UploadResolves(data) ==
    /\ uploads > 0
    /\ result' = data
    /\ files' = <<>>
    /\ uploading' = FALSE
    /\ uploads' = uploads - 1
    /\ formData' = <<>>

\* axios.post rejects (lines 33-37)
UploadRejects(message) ==
    /\ uploads > 0
    /\ result' = CaughtResult(message)
    /\ uploading' = FALSE
    /\ uploads' = uploads - 1
    /\ formData' = <<>>
    /\ UNCHANGED files

UploadNext ==
    \/ \E s \in Selections : handleFileChange(s) /\ UNCHANGED chatVars
    \/ ClickUpload /\ UNCHANGED chatVars
    \/ \E d \in EmbedAnswers(formData) : UploadResolves(d) /\ UNCHANGED chatVars
    \/ \E m \in UploadErrors : UploadRejects(m) /\ UNCHANGED chatVars

(***************************************************************************)
(* Specifications.                                                         *)
(***************************************************************************)
Init == ChatInit /\ UploadInit

\* the chat screen
Next == ChatNext

Spec == Init /\ [][Next]_vars

\* the upload screen
UploadSpec == Init /\ [][UploadNext]_vars

\* the chat screen, with a transport that keeps delivering: while a request
\* is open the reader's promise settles (a chunk, the end, or an error)
Transport ==
    \/ \E n \in 1..Len(wire) : ReadChunk(n)
    \/ ReadDone
    \/ \E m \in ErrorMessages : ReadError(m)

LiveSpec == Spec /\ WF_vars(Transport)

(***************************************************************************)
(* Reference notions the properties are stated with.                       *)
(***************************************************************************)
\* the part of the open response that has been read
Delivered ==
    LET all == Text(response)
    IN  SubSeq(all, 1, Len(all) - Len(wire))

\* the lines of a text that are complete (ended by a newline)
CompleteLines(t) ==
    LET parts == Split(t)
    IN  SubSeq(parts, 1, Len(parts) - 1)

\* is the line a data line whose payload is a JSON object
IsEventLine(line) ==
    StartsWith(line, DataPrefix) /\ ~ParseThrows(Slice(line, Len(DataPrefix)))

\* the events of the valid data lines among lines, in order
RECURSIVE ValidEvents(_)
ValidEvents(lines) ==
    IF lines = <<>> THEN <<>>
    ELSE (IF IsEventLine(Head(lines))
          THEN <<JSONParse(Slice(Head(lines), Len(DataPrefix)))>>
          ELSE <<>>) \o ValidEvents(Tail(lines))

\* the concatenation of the fragments of the agent_text events
RECURSIVE TextOf(_)
TextOf(events) ==
    IF events = <<>> THEN ""
    ELSE (IF Head(events).type = "agent_text" THEN Head(events).content ELSE "")
             \o TextOf(Tail(events))

\* the identifiers the events carry
AgentsOf(events) ==
    {events[i].agent : i \in 1..Len(events)} \ {Undefined}

\* the index at which x first occurs in s
FirstIndex(s, x) == CHOOSE i \in 1..Len(s) : s[i] = x /\ \A k \in 1..(i - 1) : s[k] # x

IsStart(e) == e.type \in {"agent_start", "agent_active"}

\* the agents announced so far for the newest message, the seed first
Announced ==
    LET starts == SelectSeq(Last(messages).events, IsStart)
    IN  <<"RootAgent">> \o [i \in 1..Len(starts) |-> starts[i].agent]

ErrorStrings == {"Error: " \o m : m \in ErrorMessages}

(***************************************************************************)
(* The claims.                                                             *)
(***************************************************************************)

\* C1: when the whole response has been read, whatever the cuts into
\* chunks were, the content of the in-progress assistant message is the
\* concatenation, in order, of the fragments of all agent_text events sent.
C1_ChunkingIndependent ==
    (pc = "streaming" /\ wire = <<>>)
        => Last(messages).content = TextOf(ValidEvents(response))

\* C2: agentHistory holds no identifier twice, holds exactly the seed and
\* the identifiers announced by agent_start/agent_active events, and lists
\* them in the order in which they were first seen.
C2_AgentHistoryFirstSeen ==
    IF messages = <<>> THEN agentHistory = <<>>
    ELSE /\ \A i, j \in 1..Len(agentHistory) :
                i # j => agentHistory[i] # agentHistory[j]
         /\ Range(agentHistory) = Range(Announced)
         /\ \A i, j \in 1..Len(agentHistory) :
                i < j => FirstIndex(Announced, agentHistory[i])
                             < FirstIndex(Announced, agentHistory[j])

\* C2 witness: an announcement of an identifier already listed was applied
\* after a new identifier had been appended.
C2_Witness ==
    /\ pc = "streaming"
    /\ agentHistory = <<"RootAgent", "RAGAgent">>
    /\ Len(Announced) = 3

\* C3 (as claimed): while a submission streams, agentsUsed of the in-progress
\* message is exactly the set of identifiers carried by the events received.
C3_AgentsUsedIsEventUnion ==
    loading =>
        Last(messages).agentsUsed = AgentsOf(ValidEvents(CompleteLines(Delivered)))

\* C3 (amended): agentsUsed of every assistant message is exactly RootAgent
\* (seeded at submission) together with the identifiers carried by the
\* events appended to that message, plus the missing identifier of an
\* agent_text event that carries none.
C3_AgentsUsedSeeded ==
    \A i \in 1..Len(messages) :
        messages[i].role = "assistant" =>
            messages[i].agentsUsed =
                {"RootAgent"} \cup AgentsOf(messages[i].events)
                    \cup {e.agent : e \in {x \in Range(messages[i].events) :
                                               x.type = "agent_text"}}

\* C3 witness: two events carrying the same identifier were applied, and an
\* identifier other than the seed is in agentsUsed once.
C3_Witness ==
    /\ pc = "streaming"
    /\ Len(Last(messages).events) = 2
    /\ Last(messages).events[1].agent = "RAGAgent"
    /\ Last(messages).events[2].agent = "RAGAgent"
    /\ Last(messages).agentsUsed = {"RootAgent", "RAGAgent"}

\* C4: reading a chunk appends to the in-progress message exactly the events
\* of the chunk's valid data lines, in order, also the ones that follow a
\* line whose payload does not parse; a chunk with no valid line changes no
\* chat state; and the stream stays open.
C4_MalformedLineSkipped ==
    [][(pc = "streaming" /\ response' = response /\ Len(wire') < Len(wire)) =>
          LET chunk == SubSeq(wire, 1, Len(wire) - Len(wire'))
              good == ValidEvents(Split(chunk))
          IN  /\ Len(messages') = Len(messages)
              /\ Last(messages').events = Last(messages).events \o good
              /\ (good = <<>> =>
                     UNCHANGED <<messages, activeAgent, agentHistory>>)
              /\ loading' /\ pc' = "streaming"]_vars

\* C4 witness: a malformed line came first and the valid line after it was
\* applied.
C4_Witness ==
    /\ pc = "streaming"
    /\ wire = <<>>
    /\ Len(response) = 2
    /\ response[1] = DataPrefix \o BadPayload
    /\ IsEventLine(response[2])
    /\ Last(messages).events = ValidEvents(<<response[2]>>)

\* C5: a failed request or read replaces the content of the in-progress
\* message by an error string and changes neither its events, its
\* agentsUsed, nor any other message.
C5_ErrorKeepsEvents ==
    [][(pc = "streaming" /\ pc' = "errored") =>
          /\ Len(messages') = Len(messages)
          /\ \A i \in 1..(Len(messages) - 1) : messages'[i] = messages[i]
          /\ Last(messages').content \in ErrorStrings
          /\ Last(messages').events = Last(messages).events
          /\ Last(messages').agentsUsed = Last(messages).agentsUsed
          /\ Last(messages').role = Last(messages).role]_vars

\* C5 witness: the second submission failed after an event had been applied.
C5_Witness ==
    /\ pc = "errored"
    /\ Len(messages) = 4
    /\ Last(messages).content \in ErrorStrings
    /\ Len(Last(messages).events) > 0

\* C6: at most one chat request is open; while a submission streams no
\* message is appended, no request is opened, the open response is not
\* replaced, chat state changes only when a chunk is read, and the message
\* the events go to is the assistant message of the open submission.
C6_SingleSubmission ==
    /\ [](streams <= 1 /\ (loading <=> streams = 1))
    /\ [](loading => Last(messages).role = "assistant")
    /\ [][loading =>
             /\ Len(messages') = Len(messages)
             /\ streams' <= streams
             /\ submits' = submits
             /\ (wire' = wire /\ loading' =>
                    UNCHANGED <<messages, activeAgent, agentHistory>>)]_vars

\* C6 witness: the second submission streams and has received an event.
C6_Witness ==
    /\ loading
    /\ streams = 1
    /\ Len(messages) = 4
    /\ Len(Last(messages).events) > 0

\* C7 (as claimed): whenever no submission streams, activeAgent is empty.
C7_IdleAgentEmpty == ~loading => activeAgent = Null

\* C8: at most one /embed request is in flight, a request carries at least
\* one file, a request starts only from a state with a selected file and no
\* pending upload, and with no file selected and no upload pending nothing
\* but a new selection changes the upload state.
C8_UploadGuard ==
    /\ [](uploads <= 1 /\ (uploading <=> uploads = 1))
    /\ [](uploads = 1 => Len(formData) > 0)
    /\ [][uploads' > uploads => (Len(files) > 0 /\ ~uploading)]_vars
    /\ [][(Len(files) = 0 /\ ~uploading) =>
             UNCHANGED <<uploading, result, formData, uploads>>]_vars

\* C8 witness: an upload is pending for a non-empty batch.
C8_Witness ==
    /\ uploading
    /\ uploads = 1
    /\ Len(formData) > 0

\* C9 (as claimed): an upload that ends with a result of status error
\* leaves the selection as it was, and an upload that ends clears a
\* selection only when its result is a success.
C9_FailureKeepsSelection ==
    [][(uploads > 0 /\ uploads' < uploads) =>
          /\ (result'.status = "error" => files' = files)
          /\ (files' # files => result'.status = "success")]_vars

\* C10: loading is true exactly in the streaming position; the position
\* moves only idle -> streaming -> completed or errored -> streaming; and
\* every submission that streams eventually stops streaming (at every time
\* there is a later time at which nothing streams, which says the same as
\* loading ~> ~loading).
C10_SubmissionLifecycle ==
    /\ [](loading <=> pc = "streaming")
    /\ [][pc' # pc =>
             <<pc, pc'>> \in {<<"idle", "streaming">>,
                              <<"streaming", "completed">>,
                              <<"streaming", "errored">>,
                              <<"completed", "streaming">>,
                              <<"errored", "streaming">>}]_vars
    /\ []<>(~loading)

\* C10 witness: a second submission has run to completion.
C10_Witness ==
    /\ pc = "completed"
    /\ submits = 2
    /\ ~loading

====
